---- MODULE Spec2Model ----
(***************************************************************************)
(* Model of src/object.rs: the Object trait (serialize / from_primitive),  *)
(* its implementations for PlainRef, Ref<T>, i32, usize, bool, Dictionary, *)
(* String, Vec<T> and Primitive, and the Resolve capability with the       *)
(* NoResolve resolver.                                                     *)
(*                                                                         *)
(* Text is a sequence of Unicode code points, a sink holds a sequence of   *)
(* bytes.  A call is one action: it draws its arguments from bounded sets, *)
(* runs the whole function and leaves in the state the arguments, the      *)
(* returned value, the bytes the sink received and the calls the function  *)
(* made on the way (element conversions, resolver calls).                  *)
(***************************************************************************)
EXTENDS Integers, Sequences, FiniteSets, TLC

VARIABLES call, ret, out, ev

vars == <<call, ret, out, ev>>

(***************************************************************************)
(* Bounds of the model.                                                    *)
(***************************************************************************)
MaxLen == 3      \* longest text given to String::serialize
MaxArr == 3      \* longest array given to Vec<T>::from_primitive
MaxCap == 2      \* largest capacity of a sink that can fail (a byte slice)
MaxPairs == 2    \* most entries of a mapping

(***************************************************************************)
(* Characters of the source text.                                          *)
(***************************************************************************)
Backslash == 92
LParen == 40
RParen == 41
Tilde == 126
Del == 127
FirstNonAscii == 128
LetterA == 97
Slash == 47
Space == 32
Minus == 45
Digit0 == 48
LetterR == 82
Lt == 60
Gt == 62

Chars == {LParen, RParen, Backslash, LetterA, Tilde, Del, FirstNonAscii}

RECURSIVE SeqsUpTo(_, _)
SeqsUpTo(S, n) ==
    IF n = 0 THEN {<<>>}
    ELSE LET shorter == SeqsUpTo(S, n - 1)
         IN  shorter \cup {Append(s, x) : s \in {t \in shorter : Len(t) = n - 1}, x \in S}

Texts == SeqsUpTo(Chars, MaxLen)

(***************************************************************************)
(* The sink, W: io::Write.  A Vec<u8> never fails.  A byte slice of        *)
(* capacity cap accepts cap bytes; write_all of more than the room left    *)
(* stores what fits and returns an error.                                  *)
(***************************************************************************)
Sinks == {[bounded |-> FALSE, room |-> 0]} \cup {[bounded |-> TRUE, room |-> c] : c \in 0..MaxCap}

NeverFails(sink) == ~sink.bounded

Writer(sink) == [st |-> "ok", buf |-> <<>>, bounded |-> sink.bounded, room |-> sink.room]

\* UTF-8 encoding of a code point below 2048, what write!(out, "{}", c) sends
Utf8(c) == IF c < 128 THEN <<c>> ELSE <<192 + (c \div 64), 128 + (c % 64)>>

RECURSIVE Utf8Str(_)
Utf8Str(s) == IF s = <<>> THEN <<>> ELSE Utf8(Head(s)) \o Utf8Str(Tail(s))

\* out.write_all(bytes); a writer that already failed or aborted stays so
write(w, bytes) ==
    IF w.st # "ok" THEN w
    ELSE IF ~w.bounded THEN [w EXCEPT !.buf = @ \o bytes]
    ELSE IF Len(bytes) <= w.room
         THEN [w EXCEPT !.buf = @ \o bytes, !.room = @ - Len(bytes)]
         ELSE [w EXCEPT !.buf = @ \o SubSeq(bytes, 1, w.room), !.room = 0, !.st = "io"]

\* panic!(..): the call is abandoned, the sink keeps what it received
panic(w) == IF w.st # "ok" THEN w ELSE [w EXCEPT !.st = "panic"]

(***************************************************************************)
(* impl Object for String: serialize                                       *)
(***************************************************************************)
RECURSIVE String_serialize_from(_, _, _)
String_serialize_from(s, i, w) ==
    IF i > Len(s) \/ w.st # "ok" THEN w
    ELSE LET b == s[i]
             w1 == IF b \in {Backslash, LParen, RParen} THEN write(w, <<Backslash>>)
                   ELSE IF b > Tilde THEN panic(w)
                   ELSE w
         IN  String_serialize_from(s, i + 1, write(w1, Utf8(b)))

String_serializeValidateFirst(s, w) ==
    IF \E i \in 1..Len(s) : s[i] > Tilde /\ s[i] \notin {Backslash, LParen, RParen}
    THEN panic(w)
    ELSE String_serialize_from(s, 1, w)

String_serialize(s, w) == String_serialize_from(s, 1, w)

(***************************************************************************)
(* Generic values (Primitive, declared in primitive.rs) as tagged tuples:  *)
(* <<"Null">>, <<"Integer", n>>, <<"Boolean", b>>, <<"String", text>>,     *)
(* <<"Name", text>>, <<"Reference", [id, gen]>>, <<"Array", elements>>,    *)
(* <<"Dictionary", pairs>>, a mapping being the sequence of its            *)
(* <<key, value>> pairs in stored order.                                   *)
(***************************************************************************)
MaxI32 == 2147483647
MinI32 == -MaxI32 - 1

Null == <<"Null">>
Integer(n) == <<"Integer", n>>
Boolean(b) == <<"Boolean", b>>
PString(s) == <<"String", s>>
Name(s) == <<"Name", s>>
PlainRef(id, gen) == [id |-> id, gen |-> gen]
Reference(id, gen) == <<"Reference", PlainRef(id, gen)>>
Array(xs) == <<"Array", xs>>
Dictionary(pairs) == <<"Dictionary", pairs>>

Tag(p) == p[1]

\* Dictionary::iter(): the pairs in stored order
iter(d) == d

(***************************************************************************)
(* write!(out, "{}", n) for the integer types: decimal digits, '-' first   *)
(* for a negative number.                                                  *)
(***************************************************************************)
RECURSIVE Digits(_)
Digits(n) == IF n < 10 THEN <<Digit0 + n>> ELSE Digits(n \div 10) \o <<Digit0 + (n % 10)>>

\* the digits of m + 1, computed without leaving the 32-bit range
DigitsSucc(m) ==
    IF m % 10 = 9 THEN Digits((m \div 10) + 1) \o <<Digit0>>
    ELSE IF m < 10 THEN <<Digit0 + m + 1>>
    ELSE Digits(m \div 10) \o <<Digit0 + (m % 10) + 1>>

Decimal(n) == IF n >= 0 THEN Digits(n) ELSE <<Minus>> \o DigitsSucc(-(n + 1))

i32_serialize(x, w) == write(w, Decimal(x))

bool_serialize(x, w) ==
    write(w, IF x THEN <<116, 114, 117, 101>> ELSE <<102, 97, 108, 115, 101>>)

PlainRef_serialize(x, w) ==
    write(write(write(write(w, Digits(x.id)), <<Space>>), Digits(x.gen)), <<Space, LetterR>>)

Ref_serialize(x, w) == PlainRef_serialize(x.inner, w)

(***************************************************************************)
(* impl Object for Dictionary / Vec<T> / Primitive: serialize              *)
(***************************************************************************)
RECURSIVE Primitive_serialize(_, _)
RECURSIVE Dictionary_serialize_from(_, _, _)
RECURSIVE write_list_from(_, _, _)

\* the body of the for loop of Dictionary::serialize, from pair i on
DictionaryPairNoKeySpace(d, i, w) ==
    Dictionary_serialize_from(d, i + 1,
        Primitive_serialize(iter(d)[i][2], write(w, <<Slash>> \o Utf8Str(iter(d)[i][1]))))

DictionaryPair(d, i, w) ==
    Dictionary_serialize_from(d, i + 1,
        Primitive_serialize(iter(d)[i][2],
            write(write(write(w, <<Slash>>), Utf8Str(iter(d)[i][1])), <<Space>>)))

Dictionary_serialize_from(d, i, w) ==
    IF i > Len(iter(d)) \/ w.st # "ok" THEN w ELSE DictionaryPair(d, i, w)

Dictionary_serialize(d, w) ==
    write(Dictionary_serialize_from(d, 1, write(w, <<Lt, Lt>>)), <<Gt, Gt>>)

\* types::write_list: the elements between brackets, separated by a space
write_list_from(xs, i, w) ==
    IF i > Len(xs) \/ w.st # "ok" THEN w
    ELSE write_list_from(xs, i + 1,
            Primitive_serialize(xs[i], IF i = 1 THEN w ELSE write(w, <<Space>>)))

write_list(w, xs) == write(write_list_from(xs, 1, write(w, <<91>>)), <<93>>)

Vec_serialize(xs, w) == write_list(w, xs)

Primitive_serialize(p, w) ==
    CASE Tag(p) = "Null" -> write(w, <<110, 117, 108, 108>>)
      [] Tag(p) = "Integer" -> i32_serialize(p[2], w)
      [] Tag(p) = "Boolean" -> bool_serialize(p[2], w)
      [] Tag(p) = "String" -> String_serialize(p[2], w)
      [] Tag(p) = "Dictionary" -> Dictionary_serialize(p[2], w)
      [] Tag(p) = "Array" -> Vec_serialize(p[2], w)
      [] Tag(p) = "Reference" -> PlainRef_serialize(p[2], w)
      [] Tag(p) = "Name" -> String_serialize(p[2], w)

(***************************************************************************)
(* Results and errors (err.rs).  ev is the record of the calls made while  *)
(* the result was computed: <<"from_primitive", T, p>> for a conversion a  *)
(* Vec<T> started on a value, <<"resolve", r, ref>> for a resolver call.   *)
(***************************************************************************)
Ok(v, e) == [st |-> "Ok", val |-> v, err |-> <<>>, ev |-> e]
Err(x, e) == [st |-> "Err", val |-> <<>>, err |-> x, ev |-> e]

FollowReference == <<"FollowReference">>
UnexpectedPrimitive(expected, found) == <<"UnexpectedPrimitive", expected, found>>
NotFound == <<"NotFound">>

(***************************************************************************)
(* Resolve: NoResolve (NO_RESOLVE is a reference to a NoResolve), and the  *)
(* blanket implementation for closures, here a closure that looks the      *)
(* object number up in a table of one object.                              *)
(***************************************************************************)
Resolvers == {"NoResolve", "NO_RESOLVE", "Closure"}

NoResolve_resolveOk(ref) ==
    IF ref.gen = 0 THEN Err(FollowReference, <<>>) ELSE Ok(Null, <<>>)

NoResolve_resolve(ref) == Err(FollowReference, <<>>)

Closure(ref) == IF ref.id = 1 THEN Ok(Integer(5), <<>>) ELSE Err(NotFound, <<>>)

Fn_resolve(ref) == Closure(ref)

resolve(r, ref) ==
    LET res == IF r = "Closure" THEN Fn_resolve(ref) ELSE NoResolve_resolve(ref)
    IN  [res EXCEPT !.ev = <<<<"resolve", r, ref>>>>]

(***************************************************************************)
(* The accessors of Primitive (primitive.rs): each returns the payload of  *)
(* the variant it is named after and fails with a type mismatch on any     *)
(* other variant.                                                          *)
(***************************************************************************)
as_variant(p, tag) ==
    IF Tag(p) = tag THEN Ok(p[2], <<>>) ELSE Err(UnexpectedPrimitive(tag, Tag(p)), <<>>)

as_integer(p) == as_variant(p, "Integer")
as_bool(p) == as_variant(p, "Boolean")
as_name(p) == as_variant(p, "Name")
as_reference(p) == as_variant(p, "Reference")
as_array(p, r) == as_variant(p, "Array")
as_dictionary(p, r) == as_variant(p, "Dictionary")

(***************************************************************************)
(* `x as usize` for x: i32 on a 64-bit target: sign extension to 64 bits.  *)
(* A usize is held as four 16-bit limbs, least significant first.          *)
(***************************************************************************)
LimbBase == 65536
HalfLimb == 32768

AsUsize(x) ==
    IF x >= 0 THEN <<x % LimbBase, x \div LimbBase, 0, 0>>
    ELSE LET m == (x + MaxI32) + 1    \* x + 2^31, the low 31 bits of x
         IN  <<m % LimbBase, (m \div LimbBase) + HalfLimb, LimbBase - 1, LimbBase - 1>>

(***************************************************************************)
(* Object::from_primitive.  A type is <<"i32">>, <<"usize">>, <<"bool">>,  *)
(* <<"String">>, <<"PlainRef">>, <<"Dictionary">>, <<"Primitive">>,        *)
(* <<"Ref", T>> or <<"Vec", T>>.                                           *)
(***************************************************************************)
Ref_new(inner) == [inner |-> inner]

PlainRef_from_primitiveResolving(p, r) ==
    IF Tag(p) = "Reference"
    THEN LET got == resolve(r, p[2])
         IN  IF got.st = "Err" THEN got ELSE Ok(p[2], got.ev)
    ELSE as_reference(p)

PlainRef_from_primitive(p, r) == as_reference(p)

Ref_from_primitive(p, r) ==
    LET x == as_reference(p)
    IN  IF x.st = "Err" THEN x ELSE Ok(Ref_new(x.val), x.ev)

i32_from_primitive(p, r) == as_integer(p)

usize_from_primitiveChecked(p, r) ==
    LET x == i32_from_primitive(p, r)
    IN  IF x.st = "Err" THEN x
        ELSE IF x.val < 0 THEN Err(UnexpectedPrimitive("usize", "Integer"), x.ev)
        ELSE Ok(AsUsize(x.val), x.ev)

usize_from_primitive(p, r) ==
    LET x == i32_from_primitive(p, r)
    IN  IF x.st = "Err" THEN x ELSE Ok(AsUsize(x.val), x.ev)

bool_from_primitive(p, r) == as_bool(p)

Dictionary_from_primitive(p, r) == as_dictionary(p, r)

String_from_primitive(p, r) ==
    LET x == as_name(p)
    IN  IF x.st = "Err" THEN x ELSE Ok(x.val, x.ev)

Primitive_from_primitive(p, r) == Ok(p, <<>>)

RECURSIVE from_primitive(_, _, _)
RECURSIVE collect(_, _, _, _, _, _)

\* T::from_primitive(p, r) as Vec<T> calls it: the call is recorded
invoke(T, p, r) ==
    LET x == from_primitive(T, p, r)
    IN  [x EXCEPT !.ev = <<<<"from_primitive", T, p>>>> \o @]

\* .map(|p| T::from_primitive(p, r)).collect::<Result<Vec<T>>>() from element i
\* on, acc the values converted so far and e the calls made so far
collectLastError(T, xs, i, r, acc, e) ==
    IF i > Len(xs) THEN Ok(acc, e)
    ELSE LET x == invoke(T, xs[i], r)
             rest == collect(T, xs, i + 1, r, Append(acc, x.val), e \o x.ev)
         IN  IF x.st = "Err" /\ rest.st = "Ok" THEN Err(x.err, rest.ev) ELSE rest

collect(T, xs, i, r, acc, e) ==
    IF i > Len(xs) THEN Ok(acc, e)
    ELSE LET x == invoke(T, xs[i], r)
         IN  IF x.st = "Err" THEN Err(x.err, e \o x.ev)
             ELSE collect(T, xs, i + 1, r, Append(acc, x.val), e \o x.ev)

Vec_from_primitiveArrayOnly(T, p, r) ==
    LET arr == as_array(p, r)
    IN  IF arr.st = "Err" THEN arr ELSE collect(T, arr.val, 1, r, <<>>, arr.ev)

Vec_from_primitive(T, p, r) ==
    IF Tag(p) = "Array"
    THEN LET arr == as_array(p, r)
         IN  IF arr.st = "Err" THEN arr ELSE collect(T, arr.val, 1, r, <<>>, arr.ev)
    ELSE LET x == invoke(T, p, r)
         IN  IF x.st = "Err" THEN x ELSE Ok(<<x.val>>, x.ev)

from_primitive(T, p, r) ==
    CASE T[1] = "i32" -> i32_from_primitive(p, r)
      [] T[1] = "usize" -> usize_from_primitive(p, r)
      [] T[1] = "bool" -> bool_from_primitive(p, r)
      [] T[1] = "String" -> String_from_primitive(p, r)
      [] T[1] = "PlainRef" -> PlainRef_from_primitive(p, r)
      [] T[1] = "Ref" -> Ref_from_primitive(p, r)
      [] T[1] = "Dictionary" -> Dictionary_from_primitive(p, r)
      [] T[1] = "Primitive" -> Primitive_from_primitive(p, r)
      [] T[1] = "Vec" -> Vec_from_primitive(T[2], p, r)

Done(w) == [st |-> IF w.st = "ok" THEN "Ok" ELSE IF w.st = "io" THEN "Err" ELSE "Panic",
            val |-> <<>>,
            err |-> IF w.st = "io" THEN <<"io">> ELSE <<>>]

(***************************************************************************)
(* The arguments the calls are made with.                                  *)
(***************************************************************************)
MaxGen == 65535
LetterB == 98

KeyA == <<LetterA>>
KeyB == <<LetterB>>
KeyParen == <<LetterA, LParen>>
Keys == {KeyA, KeyB, KeyParen}

IntVals == {MinI32, -1, 0, 5, MaxI32}
Refs == {PlainRef(1, 0), PlainRef(7, MaxGen)}

\* values stored in a mapping that is serialized
DictVals ==
    {Null, Integer(-1), Boolean(FALSE), PString(<<LParen>>), PString(<<FirstNonAscii>>),
     Name(<<LetterA>>), Reference(7, MaxGen), Dictionary(<<<<KeyA, Integer(MinI32)>>>>),
     Array(<<Integer(5), Null>>)}

\* mappings: keys are unique, the order of the pairs is the order of insertion
Dicts ==
    {d \in SeqsUpTo(Keys \X DictVals, MaxPairs) :
        \A i, j \in 1..Len(d) : i # j => d[i][1] # d[j][1]}

\* values serialized on their own
PVals ==
    DictVals \cup {Integer(n) : n \in IntVals} \cup {Boolean(TRUE), Name(<<LetterA, RParen>>),
                   PString(<<LetterA, RParen>>), Array(<<>>), Dictionary(<<>>),
                   Reference(1, 0)}

\* values converted by from_primitive
Scalars ==
    {Null, Boolean(TRUE), Name(<<LetterA>>), PString(<<LetterA>>), Dictionary(<<>>)}
        \cup {Integer(n) : n \in IntVals} \cup {<<"Reference", x>> : x \in Refs}

ArrElems == {Integer(-1), Integer(5), Boolean(TRUE), Reference(1, 0), Array(<<Integer(5)>>)}

Arrays == {Array(xs) : xs \in SeqsUpTo(ArrElems, MaxArr)}

ElemTypes ==
    {<<"i32">>, <<"usize">>, <<"bool">>, <<"String">>, <<"PlainRef">>, <<"Dictionary">>,
     <<"Primitive">>, <<"Ref", <<"i32">>>>, <<"Ref", <<"Dictionary">>>>, <<"Vec", <<"i32">>>>}

Types == ElemTypes \cup {<<"Vec", T>> : T \in ElemTypes}

(***************************************************************************)
(* The calls.  One call is made at a time; Return is the caller taking the *)
(* result, after which nothing of the call is left.                        *)
(***************************************************************************)
Idle == call[1] = "none"

Init ==
    /\ call = <<"none">>
    /\ ret = [st |-> "Ok", val |-> <<>>, err |-> <<>>]
    /\ out = <<>>
    /\ ev = <<>>

Serialized(w) ==
    /\ ret' = Done(w)
    /\ out' = w.buf
    /\ ev' = <<>>

Converted(x) ==
    /\ ret' = [st |-> x.st, val |-> x.val, err |-> x.err]
    /\ out' = <<>>
    /\ ev' = x.ev

SerializeString ==
    /\ Idle
    /\ \E s \in Texts, sink \in Sinks :
        /\ call' = <<"String::serialize", s, sink>>
        /\ Serialized(String_serialize(s, Writer(sink)))

SerializeDictionary ==
    /\ Idle
    /\ \E d \in Dicts, sink \in Sinks :
        /\ call' = <<"Dictionary::serialize", d, sink>>
        /\ Serialized(Dictionary_serialize(d, Writer(sink)))

SerializePrimitive ==
    /\ Idle
    /\ \E p \in PVals, sink \in Sinks :
        /\ call' = <<"Primitive::serialize", p, sink>>
        /\ Serialized(Primitive_serialize(p, Writer(sink)))

FromPrimitive ==
    /\ Idle
    /\ \E T \in Types, p \in Scalars \cup Arrays, r \in {"NO_RESOLVE", "Closure"} :
        /\ call' = <<"from_primitive", T, p, r>>
        /\ Converted(from_primitive(T, p, r))

Resolve ==
    /\ Idle
    /\ \E r \in Resolvers, ref \in Refs :
        /\ call' = <<"resolve", r, ref>>
        /\ Converted(resolve(r, ref))

Return ==
    /\ ~Idle
    /\ call' = <<"none">>
    /\ ret' = [st |-> "Ok", val |-> <<>>, err |-> <<>>]
    /\ out' = <<>>
    /\ ev' = <<>>

Next ==
    \/ SerializeString
    \/ SerializeDictionary
    \/ SerializePrimitive
    \/ FromPrimitive
    \/ Resolve
    \/ Return

Spec == Init /\ [][Next]_vars
(***************************************************************************)
(* What the checked statements speak of.                                   *)
(***************************************************************************)
IsCall(name) == call[1] = name

VecSink == [bounded |-> FALSE, room |-> 0]

\* a text with a backslash before each backslash, '(' and ')'
RECURSIVE Escaped(_)
Escaped(s) ==
    IF s = <<>> THEN <<>>
    ELSE (IF Head(s) \in {Backslash, LParen, RParen} THEN <<Backslash>> ELSE <<>>)
            \o <<Head(s)>> \o Escaped(Tail(s))

SevenBit(s) == \A i \in 1..Len(s) : s[i] <= Del

\* the index of the first element satisfying Bad, 0 if there is none
FirstIndex(xs, Bad(_)) ==
    IF \E i \in 1..Len(xs) : Bad(xs[i])
    THEN CHOOSE i \in 1..Len(xs) : Bad(xs[i]) /\ \A j \in 1..(i - 1) : ~Bad(xs[j])
    ELSE 0

\* C1: converting a value that is not an array to Vec<T> succeeds exactly
\* when converting it to T succeeds; the result is then the one-element
\* sequence of T's result, and otherwise the error is T's error.
C1_SingletonCoercion ==
    (IsCall("from_primitive") /\ call[2][1] = "Vec" /\ Tag(call[3]) # "Array") =>
        LET x == from_primitive(call[2][2], call[3], call[4])
        IN  /\ ret.st = x.st
            /\ x.st = "Ok" => ret.val = <<x.val>>
            /\ x.st = "Err" => ret.err = x.err

C1_Witness ==
    /\ IsCall("from_primitive")
    /\ call[2] = <<"Vec", <<"i32">>>>
    /\ call[3] = Integer(5)
    /\ ret.st = "Ok"
    /\ ret.val = <<5>>

\* C2: converting an array to Vec<T>, when element i is the first whose
\* conversion to T fails, fails with element i's error, returns no partial
\* sequence, and has invoked T::from_primitive on elements 1..i in order
\* and on no later element.
C2_ArrayFailFast ==
    (IsCall("from_primitive") /\ call[2][1] = "Vec" /\ Tag(call[3]) = "Array") =>
        LET T == call[2][2]
            xs == call[3][2]
            Fails(p) == from_primitive(T, p, call[4]).st = "Err"
            i == FirstIndex(xs, Fails)
            invoked == SelectSeq(ev, LAMBDA e : e[1] = "from_primitive" /\ e[2] = T)
        IN  i > 0 =>
                /\ ret.st = "Err"
                /\ ret.err = from_primitive(T, xs[i], call[4]).err
                /\ ret.val = <<>>
                /\ invoked = [k \in 1..i |-> <<"from_primitive", T, xs[k]>>]

C2_Witness ==
    /\ IsCall("from_primitive")
    /\ call[2] = <<"Vec", <<"i32">>>>
    /\ call[3] = Array(<<Integer(5), Boolean(TRUE), Reference(1, 0)>>)
    /\ ret.st = "Err"
    /\ ret.err = UnexpectedPrimitive("Integer", "Boolean")
    /\ Len(ev) = 2

\* C3: for a text of 7-bit characters and a sink that never fails,
\* String::serialize succeeds and writes the characters in order with one
\* backslash before each backslash, '(' and ')' and nothing else inserted.
C3_TextEscaping ==
    (IsCall("String::serialize") /\ NeverFails(call[3]) /\ SevenBit(call[2])) =>
        /\ ret.st = "Ok"
        /\ out = Escaped(call[2])
        /\ Len(out) = Len(call[2])
                + Cardinality({i \in 1..Len(call[2]) : call[2][i] \in {Backslash, LParen, RParen}})

\* C4: with a sink that never fails, String::serialize aborts exactly when
\* the text has a character with a code point above 127; a text of code
\* points 0..127, DEL included, is serialized without abort.
C4_AbortIffNotSevenBit ==
    (IsCall("String::serialize") /\ NeverFails(call[3])) =>
        /\ ret.st = "Panic" <=> ~SevenBit(call[2])
        /\ SevenBit(call[2]) => ret.st = "Ok"

\* the text of the pairs of a mapping, sep written after each value
RECURSIVE PairsText(_, _)
PairsText(d, sep) ==
    IF d = <<>> THEN <<>>
    ELSE <<Slash>> \o Utf8Str(d[1][1]) \o <<Space>>
            \o Primitive_serialize(d[1][2], Writer(VecSink)).buf \o sep
            \o PairsText(Tail(d), sep)

Aborts(pair) == Primitive_serialize(pair[2], Writer(VecSink)).st = "panic"

\* C5 as stated: with a sink that never fails, Dictionary::serialize writes
\* "<<", then for each pair in stored order "/" key " " value " " (a space
\* after the value too), then ">>".
C5_Original ==
    (IsCall("Dictionary::serialize") /\ NeverFails(call[3]) /\ ret.st = "Ok") =>
        out = <<Lt, Lt>> \o PairsText(call[2], <<Space>>) \o <<Gt, Gt>>

\* C5 amended: with a sink that never fails, Dictionary::serialize writes
\* "<<", then for each pair in stored order "/" key " " value with nothing
\* after the value, then ">>"; when the serialization of a value aborts,
\* the call aborts there, the sink holding what was written up to the abort.
C5_MappingSerialization ==
    (IsCall("Dictionary::serialize") /\ NeverFails(call[3])) =>
        LET d == call[2]
            k == FirstIndex(d, Aborts)
        IN  IF k = 0
            THEN /\ ret.st = "Ok"
                 /\ out = <<Lt, Lt>> \o PairsText(d, <<>>) \o <<Gt, Gt>>
            ELSE /\ ret.st = "Panic"
                 /\ out = <<Lt, Lt>> \o PairsText(SubSeq(d, 1, k), <<>>)

C5_Witness ==
    /\ IsCall("Dictionary::serialize")
    /\ NeverFails(call[3])
    /\ call[2] = <<<<KeyB, Null>>, <<KeyA, Integer(-1)>>>>
    /\ ret.st = "Ok"
    /\ out = <<Lt, Lt, Slash, LetterB, Space, 110, 117, 108, 108,
               Slash, LetterA, Space, Minus, 49, Gt, Gt>>

\* C6: serializing a value of the name variant writes '/' followed by the
\* identifier, which is not the form the text-string variant with the same
\* characters is written in.
C6_NameSyntax ==
    (IsCall("Primitive::serialize") /\ Tag(call[2]) = "Name" /\ NeverFails(call[3])
        /\ ret.st = "Ok") =>
        /\ out = <<Slash>> \o Utf8Str(call[2][2])
        /\ out # Primitive_serialize(PString(call[2][2]), Writer(VecSink)).buf

\* C7: NoResolve.resolve(r) and NO_RESOLVE.resolve(r) return the error
\* FollowReference for every reference r, whatever calls came before.
C7_NoResolveAlwaysFails ==
    (IsCall("resolve") /\ call[2] \in {"NoResolve", "NO_RESOLVE"}) =>
        /\ ret.st = "Err"
        /\ ret.err = FollowReference

C7_Witness ==
    /\ IsCall("resolve")
    /\ call[2] = "NO_RESOLVE"
    /\ call[3] = PlainRef(7, MaxGen)
    /\ ret.st = "Err"

\* C8: PlainRef::from_primitive and Ref<T>::from_primitive succeed exactly
\* when the value is the reference variant, make no resolver call, return
\* the object and generation numbers of the reference in the value whatever
\* the marker type, and fail on any other variant with the type-mismatch
\* error of as_reference.
C8_ReferenceConstruction ==
    (IsCall("from_primitive") /\ call[2][1] \in {"PlainRef", "Ref"}) =>
        LET p == call[3]
        IN  /\ ret.st = "Ok" <=> Tag(p) = "Reference"
            /\ \A i \in 1..Len(ev) : ev[i][1] # "resolve"
            /\ (ret.st = "Ok" /\ call[2][1] = "PlainRef") => ret.val = p[2]
            /\ (ret.st = "Ok" /\ call[2][1] = "Ref") =>
                    /\ ret.val.inner.id = p[2].id
                    /\ ret.val.inner.gen = p[2].gen
            /\ ret.st # "Ok" =>
                    /\ ret.st = "Err"
                    /\ ret.err = as_reference(p).err
                    /\ ret.err = UnexpectedPrimitive("Reference", Tag(p))

C8_Witness ==
    /\ IsCall("from_primitive")
    /\ call[2] = <<"Ref", <<"Dictionary">>>>
    /\ call[3] = Reference(1, 0)
    /\ call[4] = "NO_RESOLVE"
    /\ ret.st = "Ok"
    /\ ret.val = [inner |-> PlainRef(1, 0)]

\* the first character String::serialize aborts at, 0 if there is none
FirstOffending(s) == FirstIndex(s, LAMBDA c : c > Tilde)

\* C9 as stated: when String::serialize aborts because of a character
\* outside the 7-bit range, the sink has received nothing.
C9_Original ==
    (IsCall("String::serialize") /\ ret.st = "Panic"
        /\ call[2][FirstOffending(call[2])] > Del) =>
        out = <<>>

\* C9 amended: when String::serialize aborts, the sink has received the
\* characters before the one it aborts at (the first with a code point
\* above '~'), each backslash, '(' and ')' with its backslash, and nothing
\* of that character or of the ones after it.
C9_OutputBeforeAbort ==
    (IsCall("String::serialize") /\ ret.st = "Panic") =>
        LET k == FirstOffending(call[2])
        IN  /\ k > 0
            /\ out = Escaped(SubSeq(call[2], 1, k - 1))

C9_Witness ==
    /\ IsCall("String::serialize")
    /\ call[2] = <<LetterA, LParen, FirstNonAscii>>
    /\ ret.st = "Panic"
    /\ out = <<LetterA, Backslash, LParen>>

\* limbs + k for 0 <= k <= MaxI32, as <<limbs of the sum, carry out>>
AddLimbs(l, k) ==
    LET s1 == l[1] + (k % LimbBase)
        s2 == l[2] + (k \div LimbBase) + (s1 \div LimbBase)
        s3 == l[3] + (s2 \div LimbBase)
        s4 == l[4] + (s3 \div LimbBase)
    IN  <<<<s1 % LimbBase, s2 % LimbBase, s3 % LimbBase, s4 % LimbBase>>, s4 \div LimbBase>>

IsUsize(l) == Len(l) = 4 /\ \A i \in 1..4 : l[i] \in 0..(LimbBase - 1)

\* C10: usize::from_primitive succeeds exactly when i32::from_primitive
\* does, with the same error otherwise, so never fails on a negative
\* integer; for n >= 0 the result is n, for n < 0 it is n + 2^64.
C10_UsizeConversion ==
    (IsCall("from_primitive") /\ call[2][1] = "usize") =>
        LET x == i32_from_primitive(call[3], call[4])
            n == x.val
        IN  /\ ret.st = x.st
            /\ x.st = "Err" => ret.err = x.err
            /\ (x.st = "Ok" /\ n < 0) => ret.st = "Ok"
            /\ x.st = "Ok" =>
                /\ IsUsize(ret.val)
                /\ n >= 0 => AddLimbs(<<0, 0, 0, 0>>, n) = <<ret.val, 0>>
                \* result - n - 1 = 2^64 - 1
                /\ n < 0 => AddLimbs(ret.val, -(n + 1))
                                = <<[i \in 1..4 |-> LimbBase - 1], 0>>

C10_Witness ==
    /\ IsCall("from_primitive")
    /\ call[2] = <<"usize">>
    /\ call[3] = Integer(-1)
    /\ ret.st = "Ok"
    /\ ret.val = [i \in 1..4 |-> LimbBase - 1]
====
